---- MODULE Spec2Model ----
(***************************************************************************)
(* mugen_park: ground truth vs. forecast line chart.                       *)
(*                                                                         *)
(* main (src/src/main.rs) loads two CSV tables, filters and converts them  *)
(* (src/src/data.rs) and LineGraph::draw (src/src/graph.rs) joins them,    *)
(* builds the x-axis labels, the y-axis bounds and the two series, renders *)
(* the chart and saves the image.                                          *)
(*                                                                         *)
(* Encoding.  An optional cell is a sequence of length <= 1: None is <<>>, *)
(* Some(v) is <<v>>.  A time string is the tuple of its numeric fields:    *)
(* <<m, s>> is written with seconds ("%m/%d/%Y %H:%M:%S"), <<m>> without   *)
(* ("%m/%d/%Y %H:%M"), where m counts whole minutes; Garbled is a string   *)
(* no format parses.  A timestamp is an integer number of milliseconds.    *)
(* Readings are integers (the f64 / i64 columns hold whole megawatts).     *)
(***************************************************************************)
EXTENDS Integers, Sequences, FiniteSets, TLC

\* ------------------------------------------------------------------ bounds
MaxLen == 2          \* rows per input table
MaxMinute == 1       \* time strings cover minutes 0..MaxMinute
MaxRangeLen == 3     \* rows of the ground truth in the axis-range specification

\* ------------------------------------------------------- program constants
RoundingUnit == 100  \* the literal 100.0 of the y-axis bounds
MsPerSecond == 1000  \* dt / 1000 in the label closure; TimeUnit::Milliseconds

SecondsPerMinute == 60

None == <<>>
Some(v) == <<v>>
IsSome(c) == Len(c) = 1
Unwrap(c) == c[1]

Garbled == <<>>
Region == "N.Y.C."
Regions == {"N.Y.C.", "WEST"}
LoadValues == {150, 500}
ForecastValues == {250, 700}
RangeValues == {-150, 150, 320, 480, 500}

TruthStrings == {<<m, s>> : m \in 0..MaxMinute, s \in {0, 30}} \cup {Garbled}
PredStrings == {<<m>> : m \in 0..MaxMinute} \cup {Garbled}

TruthCsvRows == [name : Regions, ts : TruthStrings, load : LoadValues]
PredCsvRows == [ts : PredStrings, nyc : ForecastValues]

SeqsUpTo(S, n) == UNION {[1..k -> S] : k \in 0..n}

\* ------------------------------------------------------------ generic helpers
RECURSIVE SetToSortedSeq(_)
\* Series::unique().sort(SortOptions::default()): ascending, one entry per value
SetToSortedSeq(S) ==
    IF S = {} THEN <<>>
    ELSE LET m == CHOOSE x \in S : \A y \in S : x <= y
         IN <<m>> \o SetToSortedSeq(S \ {m})

MapSeq(F(_), s) == [i \in DOMAIN s |-> F(s[i])]

RECURSIVE SeqMin(_)
SeqMin(s) ==
    IF Len(s) = 1 THEN s[1]
    ELSE LET r == SeqMin(Tail(s)) IN IF s[1] <= r THEN s[1] ELSE r

RECURSIVE SeqMax(_)
SeqMax(s) ==
    IF Len(s) = 1 THEN s[1]
    ELSE LET r == SeqMax(Tail(s)) IN IF s[1] >= r THEN s[1] ELSE r

\* ------------------------------------------------------------------ data.rs
\* NaiveDateTime::parse_from_str(s, format).ok(), then milliseconds
ParseTime(str, format) ==
    IF format = "MS" /\ Len(str) = 2
        THEN Some((str[1] * SecondsPerMinute + str[2]) * MsPerSecond)
    ELSE IF format = "M" /\ Len(str) = 1
        THEN Some(str[1] * SecondsPerMinute * MsPerSecond)
    ELSE None

RECURSIVE str_to_datetime(_, _)
\* filter_map: unparseable strings are dropped, the others converted in order
str_to_datetime(strs, format) ==
    IF strs = <<>> THEN <<>>
    ELSE LET p == ParseTime(Head(strs), format)
             rest == str_to_datetime(Tail(strs), format)
         IN IF IsSome(p) THEN <<Unwrap(p)>> \o rest ELSE rest

\* DataFrame::apply("Time Stamp", f): a result of length 1 is broadcast to the
\* frame's height, a result of the frame's height replaces the column, any
\* other length is a ShapeMismatch error.
ApplyTimeStamp(height, newcol) ==
    IF Len(newcol) = 1 THEN [ok |-> TRUE, col |-> [i \in 1..height |-> newcol[1]]]
    ELSE IF Len(newcol) = height THEN [ok |-> TRUE, col |-> newcol]
    ELSE [ok |-> FALSE, col |-> <<>>]

process_truth(ground_truth, region) ==
    LET filtered == SelectSeq(ground_truth, LAMBDA r : r.name = region)
        applied == ApplyTimeStamp(Len(filtered),
                       str_to_datetime(MapSeq(LAMBDA r : r.ts, filtered), "MS"))
    IN [ok |-> applied.ok,
        df |-> IF applied.ok
               THEN [i \in DOMAIN filtered |->
                        [ts |-> applied.col[i], load |-> filtered[i].load]]
               ELSE <<>>]

process_pred(pred) ==
    LET applied == ApplyTimeStamp(Len(pred),
                       str_to_datetime(MapSeq(LAMBDA r : r.ts, pred), "M"))
    IN [ok |-> applied.ok,
        df |-> IF applied.ok
               THEN [i \in DOMAIN pred |->
                        [ts |-> applied.col[i], nyc |-> pred[i].nyc]]
               ELSE <<>>]

\* ----------------------------------------------------------------- graph.rs
RECURSIVE MatchRows(_, _)
\* the joined rows of one left row l against the right rows it matches
MatchRows(l, rs) ==
    IF rs = <<>> THEN <<>>
    ELSE (IF Head(rs).ts = l.ts
          THEN <<[tsL |-> Some(l.ts), load |-> Some(l.load),
                  tsR |-> Some(Head(rs).ts), nyc |-> Some(Head(rs).nyc)]>>
          ELSE <<>>) \o MatchRows(l, Tail(rs))

RECURSIVE LeftRows(_, _)
\* every left row: once per matching right row, or once with a null right side
LeftRows(ls, rs) ==
    IF ls = <<>> THEN <<>>
    ELSE LET m == MatchRows(Head(ls), rs)
         IN (IF m = <<>>
             THEN <<[tsL |-> Some(Head(ls).ts), load |-> Some(Head(ls).load),
                     tsR |-> None, nyc |-> None]>>
             ELSE m) \o LeftRows(Tail(ls), rs)

\* the right rows no left row matches, with a null left side
RightOnlyRows(ls, rs) ==
    LET unmatched == SelectSeq(rs, LAMBDA r : \A i \in DOMAIN ls : ls[i].ts # r.ts)
    IN [i \in DOMAIN unmatched |->
           [tsL |-> None, load |-> None,
            tsR |-> Some(unmatched[i].ts), nyc |-> Some(unmatched[i].nyc)]]

\* a left join in place of the outer join: forecast-only rows are lost
outer_join_LeftOnly(data, forecast) == LeftRows(data, forecast)

\* DataFrame::outer_join(&forecast, ["Time Stamp"], ["Time Stamp"]): the key
\* columns are not coalesced ("Time Stamp" and "Time Stamp_right")
outer_join(data, forecast) == LeftRows(data, forecast) \o RightOnlyRows(data, forecast)

RECURSIVE SortAscending(_)
\* ascending by "Time Stamp_right"; equal keys keep their order
SortAscending(rows) ==
    IF rows = <<>> THEN <<>>
    ELSE LET i == CHOOSE k \in DOMAIN rows :
                      /\ \A j \in DOMAIN rows : Unwrap(rows[k].tsR) <= Unwrap(rows[j].tsR)
                      /\ \A j \in 1..(k - 1) : Unwrap(rows[j].tsR) # Unwrap(rows[k].tsR)
         IN <<rows[i]>> \o
            SortAscending(SubSeq(rows, 1, i - 1) \o SubSeq(rows, i + 1, Len(rows)))

\* the sort with descending = true
sort_by_right_Descending(rows) ==
    LET asc == SortAscending(SelectSeq(rows, LAMBDA r : IsSome(r.tsR)))
    IN SelectSeq(rows, LAMBDA r : ~IsSome(r.tsR))
           \o [i \in DOMAIN asc |-> asc[Len(asc) + 1 - i]]

\* DataFrame::sort(["Time Stamp_right"], SortMultipleOptions::default()):
\* ascending, nulls_last = false: the rows with a null key come first
sort_by_right(rows) ==
    SelectSeq(rows, LAMBDA r : ~IsSome(r.tsR))
        \o SortAscending(SelectSeq(rows, LAMBDA r : IsSome(r.tsR)))

\* DateTime::from_timestamp(dt / 1000, 0) ... format("%m/%d/%Y %H:%M"):
\* a time string without the seconds field
FormatLabel(dt) == <<(dt \div MsPerSecond) \div SecondsPerMinute>>

\* data["Time Stamp"].append(forecast["Time Stamp"]).unique().sort() mapped to labels
XAxisData(data, forecast) ==
    MapSeq(FormatLabel,
           SetToSortedSeq({data[i].ts : i \in DOMAIN data}
                              \cup {forecast[i].ts : i \in DOMAIN forecast}))

\* ChunkedArray::into_no_null_iter(): one item per slot, taken from the values
\* buffer whatever the validity; the join fills the buffer under a null with 0
into_no_null_iter(cells) == [i \in DOMAIN cells |-> IF IsSome(cells[i]) THEN Unwrap(cells[i]) ELSE 0]

\* ChunkedArray::min() / max(): None when there is no non-null value
ColumnMin(data) == IF data = <<>> THEN None ELSE Some(SeqMin(MapSeq(LAMBDA r : r.load, data)))

ColumnMax(data) == IF data = <<>> THEN None ELSE Some(SeqMax(MapSeq(LAMBDA r : r.load, data)))

\* (min_y / 100.0).floor() * 100.0
AxisMin(v) == (v \div RoundingUnit) * RoundingUnit

\* the upper bound rounded down like the lower one
AxisMax_Floor(v) == (v \div RoundingUnit) * RoundingUnit

\* (max_y / 100.0).ceil() * 100.0
AxisMax(v) == (0 - ((0 - v) \div RoundingUnit)) * RoundingUnit

NoChart == [x_axis |-> <<>>, y_min |-> 0, y_max |-> 0, series1 |-> <<>>,
            x_axis2 |-> <<>>, y2_min |-> 0, y2_max |-> 0, series2 |-> <<>>]

\* ------------------------------------------------------------------- state
VARIABLES
    truthCsv,      \* content of the ground-truth CSV files, stacked
    predCsv,       \* content of the forecast CSV file
    pc,            \* position in main / LineGraph::draw
    result,        \* "running", "Ok", "Err" (main returned Err) or "panic"
    ground_truth,  \* main: ground_truth = LineGraph.data
    predictions,   \* main: predictions = LineGraph.forecast
    full_data,     \* draw: the joined, sorted frame
    x_axis_data,   \* draw: the labels of the visible x-axis
    min_y,         \* draw: Option<f64>
    max_y,         \* draw: Option<f64>
    chart,         \* draw: what the chart holds for the renderer
    rendered,      \* render_format returned Ok
    imageWritten   \* save_format wrote the file

vars == <<truthCsv, predCsv, pc, result, ground_truth, predictions, full_data,
          x_axis_data, min_y, max_y, chart, rendered, imageWritten>>

Init ==
    /\ truthCsv \in SeqsUpTo(TruthCsvRows, MaxLen)
    /\ predCsv \in SeqsUpTo(PredCsvRows, MaxLen)
    /\ pc = "read_truth"
    /\ result = "running"
    /\ ground_truth = <<>>
    /\ predictions = <<>>
    /\ full_data = <<>>
    /\ x_axis_data = <<>>
    /\ min_y = None
    /\ max_y = None
    /\ chart = NoChart
    /\ rendered = FALSE
    /\ imageWritten = FALSE

\* main: `?` on a read or a processing step returns Err from main
Abort ==
    /\ pc' = "done"
    /\ result' = "Err"

\* an unwrap() on None / Err unwinds the process
Panic ==
    /\ pc' = "done"
    /\ result' = "panic"

\* read_multiple_csvs(paths)? : the files are read and stacked
ReadTruth ==
    /\ pc = "read_truth"
    /\ pc' = "process_truth"
    /\ UNCHANGED <<truthCsv, predCsv, result, ground_truth, predictions, full_data,
                   x_axis_data, min_y, max_y, chart, rendered, imageWritten>>

\* read_multiple_csvs(paths)? : a file cannot be read or parsed
ReadTruthFails ==
    /\ pc = "read_truth"
    /\ Abort
    /\ UNCHANGED <<truthCsv, predCsv, ground_truth, predictions, full_data,
                   x_axis_data, min_y, max_y, chart, rendered, imageWritten>>

\* process_truth(.., "N.Y.C.")?
ProcessTruth ==
    /\ pc = "process_truth"
    /\ LET r == process_truth(truthCsv, Region)
       IN IF r.ok
          THEN /\ ground_truth' = r.df
               /\ pc' = "read_pred"
               /\ UNCHANGED result
          ELSE /\ Abort
               /\ UNCHANGED ground_truth
    /\ UNCHANGED <<truthCsv, predCsv, predictions, full_data,
                   x_axis_data, min_y, max_y, chart, rendered, imageWritten>>

\* read_csv_to_df("data/20231209isolf.csv")?
ReadPred ==
    /\ pc = "read_pred"
    /\ pc' = "process_pred"
    /\ UNCHANGED <<truthCsv, predCsv, result, ground_truth, predictions, full_data,
                   x_axis_data, min_y, max_y, chart, rendered, imageWritten>>

ReadPredFails ==
    /\ pc = "read_pred"
    /\ Abort
    /\ UNCHANGED <<truthCsv, predCsv, ground_truth, predictions, full_data,
                   x_axis_data, min_y, max_y, chart, rendered, imageWritten>>

\* process_pred(.., "N.Y.C.")? ; then the LineGraph is built and draw() entered
ProcessPred ==
    /\ pc = "process_pred"
    /\ LET r == process_pred(predCsv)
       IN IF r.ok
          THEN /\ predictions' = r.df
               /\ pc' = "draw_join"
               /\ UNCHANGED result
          ELSE /\ Abort
               /\ UNCHANGED predictions
    /\ UNCHANGED <<truthCsv, predCsv, ground_truth, full_data,
                   x_axis_data, min_y, max_y, chart, rendered, imageWritten>>

\* draw: full_data = data.outer_join(forecast, ..).unwrap().sort(..).unwrap()
Draw_Join ==
    /\ pc = "draw_join"
    /\ full_data' = sort_by_right(outer_join(ground_truth, predictions))
    /\ pc' = "draw_xaxis"
    /\ UNCHANGED <<truthCsv, predCsv, result, ground_truth, predictions,
                   x_axis_data, min_y, max_y, chart, rendered, imageWritten>>

\* draw: x_axis_data = ...
Draw_XAxis ==
    /\ pc = "draw_xaxis"
    /\ x_axis_data' = XAxisData(ground_truth, predictions)
    /\ pc' = "draw_range"
    /\ UNCHANGED <<truthCsv, predCsv, result, ground_truth, predictions, full_data,
                   min_y, max_y, chart, rendered, imageWritten>>

\* draw: min_y = data["Integrated Load"].min().unwrap(), max_y likewise
Draw_Range ==
    /\ pc = "draw_range"
    /\ IF IsSome(ColumnMin(ground_truth))
       THEN /\ min_y' = ColumnMin(ground_truth)
            /\ max_y' = ColumnMax(ground_truth)
            /\ pc' = "draw_chart"
            /\ UNCHANGED result
       ELSE /\ Panic
            /\ UNCHANGED <<min_y, max_y>>
    /\ UNCHANGED <<truthCsv, predCsv, ground_truth, predictions, full_data,
                   x_axis_data, chart, rendered, imageWritten>>

\* the hidden y-axis scaled to the forecast column instead of sharing min_y, max_y
Draw_Chart_ForecastAxis ==
    /\ pc = "draw_chart"
    /\ chart' = [x_axis |-> x_axis_data,
                 y_min |-> AxisMin(Unwrap(min_y)),
                 y_max |-> AxisMax(Unwrap(max_y)),
                 series1 |-> into_no_null_iter(MapSeq(LAMBDA r : r.load, full_data)),
                 x_axis2 |-> MapSeq(FormatLabel,
                                into_no_null_iter(MapSeq(LAMBDA r : r.tsR, full_data))),
                 y2_min |-> AxisMin(SeqMin(into_no_null_iter(MapSeq(LAMBDA r : r.nyc, full_data)))),
                 y2_max |-> AxisMax(SeqMax(into_no_null_iter(MapSeq(LAMBDA r : r.nyc, full_data)))),
                 series2 |-> into_no_null_iter(MapSeq(LAMBDA r : r.nyc, full_data))]
    /\ pc' = "render"
    /\ UNCHANGED <<truthCsv, predCsv, result, ground_truth, predictions, full_data,
                   x_axis_data, min_y, max_y, rendered, imageWritten>>

\* draw: Chart::new() ... with both axes' data, bounds and both series
Draw_Chart ==
    /\ pc = "draw_chart"
    /\ chart' = [x_axis |-> x_axis_data,
                 y_min |-> AxisMin(Unwrap(min_y)),
                 y_max |-> AxisMax(Unwrap(max_y)),
                 series1 |-> into_no_null_iter(MapSeq(LAMBDA r : r.load, full_data)),
                 x_axis2 |-> MapSeq(FormatLabel,
                                into_no_null_iter(MapSeq(LAMBDA r : r.tsR, full_data))),
                 y2_min |-> AxisMin(Unwrap(min_y)),
                 y2_max |-> AxisMax(Unwrap(max_y)),
                 series2 |-> into_no_null_iter(MapSeq(LAMBDA r : r.nyc, full_data))]
    /\ pc' = "render"
    /\ UNCHANGED <<truthCsv, predCsv, result, ground_truth, predictions, full_data,
                   x_axis_data, min_y, max_y, rendered, imageWritten>>

\* draw: renderer.render_format(ImageFormat::Png, &chart).unwrap()
Render ==
    /\ pc = "render"
    /\ rendered' = TRUE
    /\ pc' = "save"
    /\ UNCHANGED <<truthCsv, predCsv, result, ground_truth, predictions, full_data,
                   x_axis_data, min_y, max_y, chart, imageWritten>>

RenderFails ==
    /\ pc = "render"
    /\ Panic
    /\ UNCHANGED <<truthCsv, predCsv, ground_truth, predictions, full_data,
                   x_axis_data, min_y, max_y, chart, rendered, imageWritten>>

\* draw: let _ = renderer.save_format(ImageFormat::Png, &chart, filename)
Save ==
    /\ pc = "save"
    /\ imageWritten' = TRUE
    /\ pc' = "return"
    /\ UNCHANGED <<truthCsv, predCsv, result, ground_truth, predictions, full_data,
                   x_axis_data, min_y, max_y, chart, rendered>>

\* save_format returns Err (the charts/ directory is missing, the disk is
\* full, ...): the Result is discarded
SaveFails ==
    /\ pc = "save"
    /\ pc' = "return"
    /\ UNCHANGED <<truthCsv, predCsv, result, ground_truth, predictions, full_data,
                   x_axis_data, min_y, max_y, chart, rendered, imageWritten>>

\* main: Ok(())
MainReturn ==
    /\ pc = "return"
    /\ pc' = "done"
    /\ result' = "Ok"
    /\ UNCHANGED <<truthCsv, predCsv, ground_truth, predictions, full_data,
                   x_axis_data, min_y, max_y, chart, rendered, imageWritten>>

Next ==
    \/ ReadTruth
    \/ ReadTruthFails
    \/ ProcessTruth
    \/ ReadPred
    \/ ReadPredFails
    \/ ProcessPred
    \/ Draw_Join
    \/ Draw_XAxis
    \/ Draw_Range
    \/ Draw_Chart
    \/ Render
    \/ RenderFails
    \/ Save
    \/ SaveFails
    \/ MainReturn

Spec == Init /\ [][Next]_vars

\* ----------------------------------------------- axis-range specification
\* The same program run on ground-truth tables of up to MaxRangeLen readings
\* taken from RangeValues, one reading a minute, against a one-row forecast.
RangeTables(k) ==
    {[i \in 1..k |-> [name |-> Region, ts |-> <<i - 1, 0>>, load |-> v[i]]] :
        v \in [1..k -> RangeValues]}

InitRange ==
    /\ truthCsv \in UNION {RangeTables(k) : k \in 1..MaxRangeLen}
    /\ predCsv = <<[ts |-> <<0>>, nyc |-> 250]>>
    /\ pc = "read_truth"
    /\ result = "running"
    /\ ground_truth = <<>>
    /\ predictions = <<>>
    /\ full_data = <<>>
    /\ x_axis_data = <<>>
    /\ min_y = None
    /\ max_y = None
    /\ chart = NoChart
    /\ rendered = FALSE
    /\ imageWritten = FALSE

SpecRange == InitRange /\ [][Next]_vars

\* ------------------------------------------------- alignment specification
\* The same program run on tables whose time strings all parse, in any order
\* and with repetitions, and whose readings differ from row to row, so that
\* every row can be told apart after the join.
AlignTruthTables(k) ==
    {[i \in 1..k |-> [name |-> n[i], ts |-> t[i], load |-> 50 + 100 * i]] :
        n \in [1..k -> Regions], t \in [1..k -> TruthStrings \ {Garbled}]}

AlignPredTables(k) ==
    {[i \in 1..k |-> [ts |-> t[i], nyc |-> 1000 + 100 * i]] :
        t \in [1..k -> PredStrings \ {Garbled}]}

InitAlign ==
    /\ truthCsv \in UNION {AlignTruthTables(k) : k \in 0..MaxLen}
    /\ predCsv \in UNION {AlignPredTables(k) : k \in 0..MaxLen}
    /\ pc = "read_truth"
    /\ result = "running"
    /\ ground_truth = <<>>
    /\ predictions = <<>>
    /\ full_data = <<>>
    /\ x_axis_data = <<>>
    /\ min_y = None
    /\ max_y = None
    /\ chart = NoChart
    /\ rendered = FALSE
    /\ imageWritten = FALSE

SpecAlign == InitAlign /\ [][Next]_vars

\* ----------------------------------------------------- scale specification
\* The same program run on ground-truth readings from RangeValues against
\* forecasts whose readings vary over ForecastValues, one row a minute each.
ScalePredTables(k) ==
    {[i \in 1..k |-> [ts |-> <<i - 1>>, nyc |-> v[i]]] : v \in [1..k -> ForecastValues]}

InitScale ==
    /\ truthCsv \in UNION {RangeTables(k) : k \in 1..MaxLen}
    /\ predCsv \in UNION {ScalePredTables(k) : k \in 1..MaxLen}
    /\ pc = "read_truth"
    /\ result = "running"
    /\ ground_truth = <<>>
    /\ predictions = <<>>
    /\ full_data = <<>>
    /\ x_axis_data = <<>>
    /\ min_y = None
    /\ max_y = None
    /\ chart = NoChart
    /\ rendered = FALSE
    /\ imageWritten = FALSE

SpecScale == InitScale /\ [][Next]_vars

\* ------------------------------------------------------------ vocabulary
\* strictly increasing timestamps: sorted and free of duplicates
ValidSeries(df) == \A i, j \in DOMAIN df : i < j => df[i].ts < df[j].ts

NoDuplicates(df) == \A i, j \in DOMAIN df : i # j => df[i].ts # df[j].ts

Timestamps(df) == {df[i].ts : i \in DOMAIN df}

AllTimestamps == Timestamps(ground_truth) \cup Timestamps(predictions)

\* the union of both inputs' timestamps in ascending order
Timeline == SetToSortedSeq(AllTimestamps)

\* the reading of a valid ground-truth (forecast) series at t, None when absent
LoadAt(t) ==
    IF t \in Timestamps(ground_truth)
    THEN Some(ground_truth[CHOOSE i \in DOMAIN ground_truth : ground_truth[i].ts = t].load)
    ELSE None

ForecastAt(t) ==
    IF t \in Timestamps(predictions)
    THEN Some(predictions[CHOOSE i \in DOMAIN predictions : predictions[i].ts = t].nyc)
    ELSE None

\* the minute a timestamp in milliseconds falls in
MinuteOf(t) == t \div 60000

DrawPcs == {"draw_join", "draw_xaxis", "draw_range", "draw_chart", "render", "save", "return"}

\* LineGraph::draw has been entered (every panic is raised inside draw)
DrawEntered == pc \in DrawPcs \/ result \in {"panic", "Ok"}

\* draw has built the chart it hands to the renderer
ChartBuilt == chart # NoChart

\* ------------------------------------------------------------------ claims

\* C1: for two valid inputs (strictly sorted, no duplicate timestamps) the
\* x-axis sequence handed to the renderer is strictly ascending and holds no
\* entry twice.
C1_XAxisStrictlyAscending ==
    (ChartBuilt /\ ValidSeries(ground_truth) /\ ValidSeries(predictions))
        => \A i, j \in DOMAIN chart.x_axis :
               i < j => chart.x_axis[i][1] < chart.x_axis[j][1]

C3_SeriesIndexAligned ==
    (ChartBuilt /\ ValidSeries(ground_truth) /\ ValidSeries(predictions)) =>
        /\ Len(chart.series1) = Len(Timeline)
        /\ Len(chart.series2) = Len(Timeline)
        /\ \A i \in DOMAIN Timeline :
               /\ Some(chart.series1[i]) = LoadAt(Timeline[i])
               /\ Some(chart.series2[i]) = ForecastAt(Timeline[i])

\* C4: for valid inputs with disjoint timestamps the timeline has
\* |A| + |B| entries and at every timeline index exactly the originating
\* series has a value, the other a null (read on the joined frame, where the
\* nulls still exist).
C4_DisjointOrigin ==
    (/\ ChartBuilt
     /\ ValidSeries(ground_truth) /\ ValidSeries(predictions)
     /\ Timestamps(ground_truth) \cap Timestamps(predictions) = {}) =>
        /\ Len(chart.x_axis) = Len(ground_truth) + Len(predictions)
        /\ Len(full_data) = Len(Timeline)
        /\ \A i \in DOMAIN Timeline :
               /\ IsSome(full_data[i].load) <=> Timeline[i] \in Timestamps(ground_truth)
               /\ IsSome(full_data[i].nyc) <=> Timeline[i] \in Timestamps(predictions)

\* C5: for valid inputs over the same timestamp set the x-axis is the label
\* sequence of the ground truth's timestamps and of the forecast's, no joined
\* row holds a null, and both series carry their input's readings in order.
C5_SameTimestamps ==
    (/\ ChartBuilt
     /\ ValidSeries(ground_truth) /\ ValidSeries(predictions)
     /\ Timestamps(ground_truth) = Timestamps(predictions)) =>
        /\ chart.x_axis = [i \in DOMAIN ground_truth |-> <<MinuteOf(ground_truth[i].ts)>>]
        /\ chart.x_axis = [i \in DOMAIN predictions |-> <<MinuteOf(predictions[i].ts)>>]
        /\ \A i \in DOMAIN full_data :
               IsSome(full_data[i].load) /\ IsSome(full_data[i].nyc)
        /\ chart.series1 = [i \in DOMAIN ground_truth |-> ground_truth[i].load]
        /\ chart.series2 = [i \in DOMAIN predictions |-> predictions[i].nyc]

\* C5 witness: a chart built from two two-row inputs over the same timestamps
C5_Witness ==
    /\ ChartBuilt
    /\ ValidSeries(ground_truth) /\ ValidSeries(predictions)
    /\ Timestamps(ground_truth) = Timestamps(predictions)
    /\ Len(ground_truth) = 2

\* C6: with lo and hi the least and greatest ground-truth reading, the y-axis
\* minimum is the greatest multiple of the rounding unit <= lo and the maximum
\* the least multiple >= hi; hence min <= lo <= hi <= max, min < max when
\* lo < hi, and min = max = lo when lo = hi is a multiple of the unit.
\* range([150, 320, 480]) = {100, 500}, range([500, 500]) = {500, 500}.
C6_AxisRange ==
    ChartBuilt =>
        LET loads == {ground_truth[i].load : i \in DOMAIN ground_truth}
            lo == CHOOSE x \in loads : \A y \in loads : x <= y
            hi == CHOOSE x \in loads : \A y \in loads : x >= y
            u == 100
        IN /\ chart.y_min % u = 0 /\ chart.y_min <= lo /\ lo - chart.y_min < u
           /\ chart.y_max % u = 0 /\ hi <= chart.y_max /\ chart.y_max - hi < u
           /\ lo <= hi
           /\ (lo < hi => chart.y_min < chart.y_max)
           /\ ((lo = hi /\ lo % u = 0) => (chart.y_min = lo /\ chart.y_max = lo))
           /\ (loads = {150, 320, 480} => (chart.y_min = 100 /\ chart.y_max = 500))
           /\ (loads = {500} => (chart.y_min = 500 /\ chart.y_max = 500))

\* C6 witness: the chart of the readings 150, 320, 480
C6_Witness ==
    /\ ChartBuilt
    /\ [i \in DOMAIN ground_truth |-> ground_truth[i].load] = <<150, 320, 480>>
    /\ chart.y_min = 100
    /\ chart.y_max = 500

\* C7: when either input of draw is empty, the alignment fails with an error
\* returned to the caller: no panic, no chart, no image.
C7_EmptyInputError ==
    (DrawEntered /\ (ground_truth = <<>> \/ predictions = <<>>)) =>
        /\ result # "panic"
        /\ ~ChartBuilt
        /\ ~imageWritten
        /\ pc \notin {"draw_range", "draw_chart", "render", "save", "return"}

\* C8: an input of draw whose timestamps are not strictly increasing is
\* rejected with an error: it is never joined and drawn.
C8_UnsortedInputError ==
    (DrawEntered /\ ~(ValidSeries(ground_truth) /\ ValidSeries(predictions))) =>
        /\ pc = "draw_join"
        /\ full_data = <<>>
        /\ ~ChartBuilt

\* C9: the axis range over a column without a non-null reading ends the run
\* with an error result, not a panic.
C9_EmptyValuesError ==
    (DrawEntered /\ ~IsSome(ColumnMin(ground_truth))
         /\ pc \notin {"draw_join", "draw_xaxis", "draw_range"}) =>
        (pc = "done" /\ result = "Err")

\* C10: the image is written only after loading, processing, alignment,
\* range computation and rendering have succeeded, and a run that reports
\* success has written the image.
C10_ImageOnlyAfterSuccess ==
    /\ imageWritten => (ChartBuilt /\ rendered /\ IsSome(min_y) /\ result \in {"running", "Ok"})
    /\ (pc = "done" /\ result = "Ok") => imageWritten

\* C11: both y-axes get the same bounds, and the bounds are fixed by the
\* ground-truth readings alone, whatever the forecast holds: they are the
\* multiples of the rounding unit that enclose every ground-truth reading
\* within less than one unit of the least and the greatest one.
C11_SharedGroundTruthBounds ==
    ChartBuilt =>
        LET loads == {ground_truth[i].load : i \in DOMAIN ground_truth}
        IN /\ chart.y2_min = chart.y_min
           /\ chart.y2_max = chart.y_max
           /\ chart.y_min % 100 = 0
           /\ chart.y_max % 100 = 0
           /\ \A v \in loads : chart.y_min <= v /\ v <= chart.y_max
           /\ \E v \in loads : v - chart.y_min < 100
           /\ \E v \in loads : chart.y_max - v < 100

\* C11 witness: a chart whose bounds enclose the ground truth while a forecast
\* reading lies outside them
C11_Witness ==
    /\ ChartBuilt
    /\ chart.y2_min = chart.y_min
    /\ chart.y2_max = chart.y_max
    /\ \E j \in DOMAIN predictions :
           predictions[j].nyc < chart.y_min \/ predictions[j].nyc > chart.y_max
    /\ \E j \in DOMAIN predictions :
           chart.y_min <= predictions[j].nyc /\ predictions[j].nyc <= chart.y_max

====
